---- MODULE Spec2Model ----
(***************************************************************************)
(* Model of the REST API server of jorgeandrespadilla/ingenieria-web:      *)
(* the users controller (server/src/controllers/users.ts) and the          *)
(* authentication controller (login / refresh).                            *)
(*                                                                         *)
(* Every request is an independent task that suspends at each `await` of a *)
(* store call.  One action of the model is the stretch of a handler from   *)
(* one store call up to (not including) the next one: the store call is    *)
(* the point where the request observes or changes the shared store,       *)
(* everything after it until the next await is request-local.              *)
(*                                                                         *)
(* A value of type `T | null` is modelled as a set with at most one        *)
(* element ({} is null).                                                   *)
(***************************************************************************)
EXTENDS Integers, FiniteSets, TLC

\* ------------------------------------------------------------------ bounds

\* Requests served in one run of the model.
MaxRequests == 3

\* Concurrent request tasks.
Procs == {1, 2}

\* User identifiers in play.  The column is a plain integer: 0 is a legal
\* value of it (and falsy in JavaScript).
Ids == {0, 1, 2}

\* Identifiers of rows present when the server starts (seed / imported data);
\* the autoincrement sequence continues after them.
SeedIds == {0, 1}

Emails == {"a@x.com", "b@x.com"}

\* Role rows that exist, and the roleId values a request body may carry.
Roles == {1}

RoleIds == {1, 2}

Tickets == {1}

\* ------------------------------------------------------------------- state

VARIABLES
    users,      \* db.user: identifier -> [email, roleId]
    nextId,     \* db.user autoincrement sequence
    tickets,    \* db.ticket: ticket -> [assigneeId, supervisorId], each T | null
    issued,     \* user identifiers carried by the refresh tokens issued so far
    req,        \* per task: the handler it runs, its position, its locals, its response
    served      \* requests accepted so far

vars == <<users, nextId, tickets, issued, req, served>>

\* ------------------------------------------------------- store (db.*) calls

\* db.user.findUnique({ where: { id } })
findUniqueById(store, id) == IF id \in DOMAIN store THEN {id} ELSE {}

\* db.user.findUnique({ where: { email } }): the rows it may return.  The
\* store does not enforce email uniqueness itself, so with two matching rows
\* either may come back.
findUniqueByEmail(store, email) ==
    LET matches == {i \in DOMAIN store : store[i].email = email}
    IN  IF matches = {} THEN {{}} ELSE {{i} : i \in matches}

\* the ticket query with the supervisorId clause left out
findManyTickets_assigneeOnly(tks, userId) ==
    {t \in DOMAIN tks : userId \in tks[t].assigneeId}

\* db.ticket.findMany({ where: { OR: [{assigneeId}, {supervisorId}] } })
findManyTickets(tks, userId) ==
    {t \in DOMAIN tks : userId \in tks[t].assigneeId \/ userId \in tks[t].supervisorId}

\* db.user.delete({ where: { id } }) on the rows
deleteRow(store, id) == [i \in DOMAIN store \ {id} |-> store[i]]

\* the row written by db.user.create / db.user.update from the parsed body
rowOf(body) == [email |-> body.email, roleId |-> body.roleId]

\* ------------------------------------------------------- request bookkeeping

Idle(p) == req[p].pc = "done"

\* a request is accepted by task p
Accept(p) == Idle(p) /\ served < MaxRequests /\ served' = served + 1

\* res.send(...) or the error response written by catchErrors
Respond(p, r, result) == req' = [req EXCEPT ![p] = [r EXCEPT !.pc = "done"] @@ [result |-> result]]

\* JavaScript truthiness of a number: 0 is falsy.
Truthy(n) == n # 0

\* Authorization middleware in front of every /users route: the access token
\* resolves to an existing user, attached as req.currentUser.
Authorized(caller) == caller \in DOMAIN users

\* Request bodies of createUser / updateUser.  A body the schema rejects is
\* rejected whatever else it holds, so one such body stands for all of them.
Bodies ==
    {b \in [valid : BOOLEAN, email : Emails, roleId : RoleIds] :
        ~b.valid => b = [valid |-> FALSE, email |-> "a@x.com", roleId |-> 1]}

\* ------------------------------------------------------- validation functions

\* validateUser that looks the row up and never throws
validateUser_noThrow(store, userId) == "ok"

\* validateUser: "ok" or the error thrown
validateUser(store, userId) ==
    IF findUniqueById(store, userId) = {} THEN "EntityNotFoundError" ELSE "ok"

\* validateExistingEmail that returns whenever no userId is given
validateExistingEmail_idOptional(user, userId) ==
    IF user = {} THEN "ok"
    ELSE IF userId = {} \/ user = userId THEN "ok"
    ELSE "ValidationError"

\* validateExistingEmail, given the row findUnique({where: {email}}) returned
\* and the optional userId argument ({} when omitted)
validateExistingEmail(user, userId) ==
    IF user = {} THEN "ok"
    ELSE IF userId # {} /\ (\A u \in userId : Truthy(u)) /\ user = userId THEN "ok"
    ELSE "ValidationError"

\* validateAndParse(Schema, req.body)
validateAndParse(body) == IF body.valid THEN "ok" ELSE "ValidationError"

\* ------------------------------------------------------------ getUserById

GetUserById(p, userId) ==
    /\ Accept(p)
    /\ \E caller \in Ids : Authorized(caller)
    /\ LET r == [op |-> "getUserById", pc |-> "find", userId |-> userId]
       IN  IF validateUser(users, userId) # "ok"
           THEN Respond(p, r, validateUser(users, userId))
           ELSE req' = [req EXCEPT ![p] = r]
    /\ UNCHANGED <<users, nextId, tickets, issued>>

\* the second findUnique; mapToUserResponse(user!) dereferences a null row
GetUserFind(p) ==
    /\ req[p].op = "getUserById" /\ req[p].pc = "find"
    /\ IF findUniqueById(users, req[p].userId) = {}
       THEN Respond(p, req[p], "InternalError")
       ELSE Respond(p, req[p], "ok")
    /\ UNCHANGED <<users, nextId, tickets, issued, served>>

\* ------------------------------------------------------------- createUser

\* tasks between the email check of createUser and its db.user.create
Creating == {q \in Procs : req[q].op = "createUser" /\ req[q].pc = "create"}

CreateUser(p, body) ==
    /\ Accept(p)
    /\ \E caller \in Ids : Authorized(caller)
    /\ nextId + Cardinality(Creating) \in Ids
    /\ LET r == [op |-> "createUser", pc |-> "create", body |-> body]
       IN  IF validateAndParse(body) # "ok"
           THEN Respond(p, r, validateAndParse(body))
           ELSE \E user \in findUniqueByEmail(users, body.email) :
                   IF validateExistingEmail(user, {}) # "ok"
                   THEN Respond(p, r, validateExistingEmail(user, {}))
                   ELSE req' = [req EXCEPT ![p] = r]
    /\ UNCHANGED <<users, nextId, tickets, issued>>

\* db.user.create: connecting a role that does not exist makes the call throw
CreateWrite(p) ==
    /\ req[p].op = "createUser" /\ req[p].pc = "create"
    /\ IF req[p].body.roleId \notin Roles
       THEN /\ Respond(p, req[p], "InternalError")
            /\ UNCHANGED <<users, nextId>>
       ELSE /\ users' = (nextId :> rowOf(req[p].body)) @@ users
            /\ nextId' = nextId + 1
            /\ Respond(p, req[p], "ok")
    /\ UNCHANGED <<tickets, issued, served>>

\* ------------------------------------------------------------- updateUser

UpdateUser(p, userId, body) ==
    /\ Accept(p)
    /\ \E caller \in Ids : Authorized(caller)
    /\ LET r == [op |-> "updateUser", pc |-> "email", userId |-> userId, body |-> body]
       IN  IF validateAndParse(body) # "ok"
           THEN Respond(p, r, validateAndParse(body))
           ELSE IF validateUser(users, userId) # "ok"
           THEN Respond(p, r, validateUser(users, userId))
           ELSE req' = [req EXCEPT ![p] = r]
    /\ UNCHANGED <<users, nextId, tickets, issued>>

UpdateCheckEmail(p) ==
    /\ req[p].op = "updateUser" /\ req[p].pc = "email"
    /\ \E user \in findUniqueByEmail(users, req[p].body.email) :
          IF validateExistingEmail(user, {req[p].userId}) # "ok"
          THEN Respond(p, req[p], validateExistingEmail(user, {req[p].userId}))
          ELSE req' = [req EXCEPT ![p].pc = "update"]
    /\ UNCHANGED <<users, nextId, tickets, issued, served>>

\* db.user.update: a missing row or a missing role makes the call throw
UpdateWrite(p) ==
    /\ req[p].op = "updateUser" /\ req[p].pc = "update"
    /\ IF req[p].userId \notin DOMAIN users \/ req[p].body.roleId \notin Roles
       THEN /\ Respond(p, req[p], "InternalError")
            /\ UNCHANGED users
       ELSE /\ users' = [users EXCEPT ![req[p].userId] = rowOf(req[p].body)]
            /\ Respond(p, req[p], "ok")
    /\ UNCHANGED <<nextId, tickets, issued, served>>

\* ------------------------------------------------------------- deleteUser

\* the comparison made on the route parameter as a string: never equal
isCurrentUser_stringParam(userId, currentUserId) == FALSE

\* userId === req.currentUser.id
isCurrentUser(userId, currentUserId) == userId = currentUserId

DeleteUser(p, caller, userId) ==
    /\ Accept(p)
    /\ Authorized(caller)
    /\ LET r == [op |-> "deleteUser", pc |-> "validate", userId |-> userId]
       IN  IF isCurrentUser(userId, caller)
           THEN Respond(p, r, "ValidationError: La cuenta actual no puede ser eliminada.")
           ELSE req' = [req EXCEPT ![p] = r]
    /\ UNCHANGED <<users, nextId, tickets, issued>>

DeleteValidate(p) ==
    /\ req[p].op = "deleteUser" /\ req[p].pc = "validate"
    /\ IF validateUser(users, req[p].userId) # "ok"
       THEN Respond(p, req[p], validateUser(users, req[p].userId))
       ELSE req' = [req EXCEPT ![p].pc = "tickets"]
    /\ UNCHANGED <<users, nextId, tickets, issued, served>>

DeleteFindTickets(p) ==
    /\ req[p].op = "deleteUser" /\ req[p].pc = "tickets"
    /\ IF findManyTickets(tickets, req[p].userId) # {}
       THEN Respond(p, req[p], "ValidationError: El usuario tiene tickets asociados.")
       ELSE req' = [req EXCEPT ![p].pc = "delete"]
    /\ UNCHANGED <<users, nextId, tickets, issued, served>>

\* db.user.delete: a row that is gone makes the call throw
DeleteWrite(p) ==
    /\ req[p].op = "deleteUser" /\ req[p].pc = "delete"
    /\ IF req[p].userId \notin DOMAIN users
       THEN /\ Respond(p, req[p], "InternalError")
            /\ UNCHANGED users
       ELSE /\ users' = deleteRow(users, req[p].userId)
            /\ Respond(p, req[p], "ok")
    /\ UNCHANGED <<nextId, tickets, issued, served>>

\* ----------------------------------------------------------- ticket routes

\* A ticket is assigned to (or released from) a user, as assignee or as
\* supervisor: one store write.
AssignTicket(t, role, who) ==
    /\ served < MaxRequests /\ served' = served + 1
    /\ who \subseteq DOMAIN users /\ Cardinality(who) <= 1
    /\ tickets' = [tickets EXCEPT ![t] = [@ EXCEPT ![role] = who]]
    /\ tickets' # tickets
    /\ UNCHANGED <<users, nextId, issued, req>>

\* ----------------------------------------------------------- authentication

\* Tokens as presented: `ok` says the signature verifies for the purpose the
\* handler asks for and the expiry has not passed.
LoginTokens == {t \in [email : SUBSET Emails, ok : BOOLEAN] : Cardinality(t.email) <= 1}

RefreshTokens == [userId : Ids, ok : BOOLEAN]

\* readToken(token)?.['email']: a set with at most one email
readToken(token) == IF token.ok THEN token.email ELSE {}

\* verifyRefreshToken(token).userId, {} when verification throws
verifyRefreshToken(token) == IF token.ok THEN {token.userId} ELSE {}

\* the outcome of authenticate once the row lookup has answered `user`
authenticateOutcome(userEmail, user) ==
    IF userEmail = {} THEN "InvalidTokenError"
    ELSE IF user = {} THEN "UnauthorizedError"
    ELSE "ok"

\* refresh answering a missing user as authenticate does
refreshOutcome_unauthorized(userId, user) ==
    IF userId = {} \/ (\E u \in userId : ~Truthy(u)) THEN "InvalidTokenError"
    ELSE IF user = {} THEN "UnauthorizedError"
    ELSE "ok"

\* the outcome of refresh once the row lookup has answered `user`
refreshOutcome(userId, user) ==
    IF userId = {} \/ (\E u \in userId : ~Truthy(u)) THEN "InvalidTokenError"
    ELSE IF user = {} THEN "InvalidTokenError"
    ELSE "ok"

\* generateAccessToken / generateRefreshToken ({ userId: user.id }) on success
tokenPair(outcome, user) == IF outcome = "ok" THEN user ELSE {}

Authenticate(p, token) ==
    /\ Accept(p)
    /\ LET userEmail == readToken(token)
       IN  \E user \in (IF userEmail = {} THEN {{}}
                        ELSE UNION {findUniqueByEmail(users, e) : e \in userEmail}) :
              LET outcome == authenticateOutcome(userEmail, user)
              IN  /\ Respond(p, [op |-> "authenticate", pc |-> "done", token |-> token,
                                 pair |-> tokenPair(outcome, user)], outcome)
                  /\ issued' = issued \cup tokenPair(outcome, user)
    /\ UNCHANGED <<users, nextId, tickets>>

\* refresh as it would be with used refresh tokens remembered and refused
Refresh_singleUse(p, token) ==
    /\ Accept(p)
    /\ token.userId \in issued
    /\ LET userId == verifyRefreshToken(token)
           user == UNION {findUniqueById(users, u) : u \in userId}
           used == \E q \in Procs : /\ req[q].op = "refresh"
                                     /\ req[q].token = token
                                     /\ req[q].result = "ok"
           outcome == IF used THEN "InvalidTokenError" ELSE refreshOutcome(userId, user)
       IN  /\ Respond(p, [op |-> "refresh", pc |-> "done", token |-> token,
                          pair |-> tokenPair(outcome, user)], outcome)
           /\ issued' = issued \cup tokenPair(outcome, user)
    /\ UNCHANGED <<users, nextId, tickets>>

Refresh(p, token) ==
    /\ Accept(p)
    /\ token.userId \in issued
    /\ LET userId == verifyRefreshToken(token)
           user == UNION {findUniqueById(users, u) : u \in userId}
           outcome == refreshOutcome(userId, user)
       IN  /\ Respond(p, [op |-> "refresh", pc |-> "done", token |-> token,
                          pair |-> tokenPair(outcome, user)], outcome)
           /\ issued' = issued \cup tokenPair(outcome, user)
    /\ UNCHANGED <<users, nextId, tickets>>

\* ------------------------------------------------------------ specification

\* The autoincrement sequence starts after the seeded identifiers.
FirstId == 1 + CHOOSE m \in SeedIds : \A i \in SeedIds : i <= m

\* Stores the server can start on: rows with distinct emails.
SeedStores ==
    {s \in UNION {[S -> [email : Emails, roleId : Roles]] : S \in SUBSET SeedIds} :
        \A i, j \in DOMAIN s : i # j => s[i].email # s[j].email}

Init ==
    /\ users \in SeedStores
    /\ nextId = FirstId
    /\ tickets = [t \in Tickets |-> [assigneeId |-> {}, supervisorId |-> {}]]
    /\ issued = {}
    /\ req = [p \in Procs |-> [op |-> "none", pc |-> "done"]]
    /\ served = 0

Step(p) ==
    \/ \E userId \in Ids : GetUserById(p, userId)
    \/ GetUserFind(p)
    \/ \E body \in Bodies : CreateUser(p, body)
    \/ CreateWrite(p)
    \/ \E userId \in Ids, body \in Bodies : UpdateUser(p, userId, body)
    \/ UpdateCheckEmail(p)
    \/ UpdateWrite(p)
    \/ \E caller \in Ids, userId \in Ids : DeleteUser(p, caller, userId)
    \/ DeleteValidate(p)
    \/ DeleteFindTickets(p)
    \/ DeleteWrite(p)
    \/ \E token \in LoginTokens : Authenticate(p, token)
    \/ \E token \in RefreshTokens : Refresh(p, token)

Assign ==
    \E t \in Tickets, role \in {"assigneeId", "supervisorId"}, who \in SUBSET Ids :
        AssignTicket(t, role, who)

Next == (\E p \in Procs : Step(p)) \/ Assign

Spec == Init /\ [][Next]_vars

\* The same server with no concurrent requests: a request is accepted, and a
\* ticket assigned, only while no other request is in flight.
Quiet(p) == \A q \in Procs \ {p} : Idle(q)

SeqNext ==
    \/ \E p \in Procs, userId \in Ids : Quiet(p) /\ GetUserById(p, userId)
    \/ \E p \in Procs : Quiet(p) /\ GetUserFind(p)
    \/ \E p \in Procs, body \in Bodies : Quiet(p) /\ CreateUser(p, body)
    \/ \E p \in Procs : Quiet(p) /\ CreateWrite(p)
    \/ \E p \in Procs, userId \in Ids, body \in Bodies : Quiet(p) /\ UpdateUser(p, userId, body)
    \/ \E p \in Procs : Quiet(p) /\ UpdateCheckEmail(p)
    \/ \E p \in Procs : Quiet(p) /\ UpdateWrite(p)
    \/ \E p \in Procs, caller \in Ids, userId \in Ids : Quiet(p) /\ DeleteUser(p, caller, userId)
    \/ \E p \in Procs : Quiet(p) /\ DeleteValidate(p)
    \/ \E p \in Procs : Quiet(p) /\ DeleteFindTickets(p)
    \/ \E p \in Procs : Quiet(p) /\ DeleteWrite(p)
    \/ \E p \in Procs, token \in LoginTokens : Quiet(p) /\ Authenticate(p, token)
    \/ \E p \in Procs, token \in RefreshTokens : Quiet(p) /\ Refresh(p, token)
    \/ (\A q \in Procs : Idle(q)) /\ Assign

SpecSeq == Init /\ [][SeqNext]_vars

\* ------------------------------------------------------------------ claims

\* some row of the store carries this email
EmailTaken(store, email) == \E i \in DOMAIN store : store[i].email = email

\* some ticket names the user as assignee or as supervisor
Referenced(tks, id) == \E t \in DOMAIN tks : id \in tks[t].assigneeId \/ id \in tks[t].supervisorId

\* task p holds the response of a request it has answered
Answered(p, op) == req[p].op = op /\ req[p].pc = "done"

\* necessary for this step to accept a request of task p for handler op; the
\* response keeps the request's inputs, and the handler's own action applied
\* to them says whether this step is that request
Accepted(p, op) == served' # served /\ req'[p].op = op

\* this step is task p leaving position pc of handler op
Leaves(p, op, pc) == req[p].op = op /\ req[p].pc = pc /\ req'[p] # req[p]

\* C1: in every reachable state, no two distinct User rows have the same
\* email, whatever the interleaving of createUser and updateUser requests.
C1_EmailUnique ==
    \A i, j \in DOMAIN users : i # j => users[i].email # users[j].email

\* C2: in no reachable state does a ticket name, as assignee or supervisor, a
\* user that has been deleted: the ticket check of deleteUser and its delete
\* act as one transaction.
C2_NoTicketOfDeletedUser ==
    \A id \in Ids : Referenced(tickets, id) => id \in DOMAIN users

\* C3: a createUser whose email is already the email of a row of the store
\* is answered with ValidationError at its email check, and leaves the set of
\* rows (and the identifier sequence) as it was.
C3_CreateDuplicateRejected ==
    [][\A p \in Procs :
          LET body == req'[p].body
          IN  (Accepted(p, "createUser") /\ CreateUser(p, body) /\ EmailTaken(users, body.email))
                 => /\ req'[p].pc = "done"
                    /\ req'[p].result = "ValidationError"
                    /\ users' = users
                    /\ nextId' = nextId]_vars

\* C3 witness: a createUser with a well-formed body was answered with
\* ValidationError and its email is the email of a row.
C3_Witness ==
    \E p \in Procs :
        /\ Answered(p, "createUser")
        /\ req[p].body.valid
        /\ req[p].result = "ValidationError"
        /\ EmailTaken(users, req[p].body.email)

\* C4: updateUser(A) with the email of another existing user B is answered
\* with ValidationError and leaves the rows unchanged; updateUser(A) with A's
\* own unchanged email passes the email check and, written with an existing
\* role, is answered with success.
C4_UpdateEmailRule ==
    [][\A p \in Procs :
          LET A == req[p].userId
              e == req[p].body.email
          IN  /\ (Leaves(p, "updateUser", "email") /\ A \in DOMAIN users
                    /\ users[A].email # e /\ EmailTaken(users, e))
                    => /\ req'[p].pc = "done"
                       /\ req'[p].result = "ValidationError"
                       /\ users' = users
              /\ (Leaves(p, "updateUser", "email") /\ A \in DOMAIN users
                    /\ users[A].email = e)
                    => req'[p].pc = "update"
              /\ (Leaves(p, "updateUser", "update") /\ A \in DOMAIN users
                    /\ users[A].email = e /\ req[p].body.roleId \in Roles)
                    => req'[p].result = "ok"]_vars

\* C5: deleteUser of the caller's own identifier is answered with
\* ValidationError in the step that accepts it, before any store call; no
\* row and no ticket changes, and the caller's row is still there for a
\* following getUserById.
C5_SelfDeleteRejected ==
    [][\A p \in Procs :
          LET id == req'[p].userId
          IN  (Accepted(p, "deleteUser") /\ DeleteUser(p, id, id))
                 => /\ req'[p].pc = "done"
                    /\ req'[p].result = "ValidationError: La cuenta actual no puede ser eliminada."
                    /\ users' = users
                    /\ tickets' = tickets
                    /\ id \in DOMAIN users']_vars

\* C5 witness: the caller, who has a ticket, asked to delete their own
\* account, was refused, and is still in the store.
C5_Witness ==
    \E p \in Procs :
        /\ Answered(p, "deleteUser")
        /\ req[p].result = "ValidationError: La cuenta actual no puede ser eliminada."
        /\ req[p].userId \in DOMAIN users
        /\ Referenced(tickets, req[p].userId)

\* C6: with no concurrent requests, the answer of deleteUser for an existing
\* user other than the caller is decided by the tickets: referenced as
\* assignee or supervisor, ValidationError and the row stays; referenced by
\* none, success and exactly that row is removed.  No other step of
\* deleteUser changes the rows.
C6_DeleteDecidedByTickets ==
    [][\A p \in Procs :
          LET id == req[p].userId
          IN  (req[p].op = "deleteUser" /\ req[p].pc # "done" /\ req'[p] # req[p])
                 => /\ (req'[p].pc = "done" /\ id \in DOMAIN users /\ Referenced(tickets, id))
                        => /\ req'[p].result = "ValidationError: El usuario tiene tickets asociados."
                           /\ users' = users
                    /\ (req'[p].pc = "done" /\ id \in DOMAIN users /\ ~Referenced(tickets, id))
                        => /\ req'[p].result = "ok"
                           /\ id \notin DOMAIN users'
                           /\ \A i \in DOMAIN users \ {id} : i \in DOMAIN users' /\ users'[i] = users[i]
                    /\ (users' # users) => ~Referenced(tickets, id)]_vars

\* C6 witness: a deleteUser for a user that a ticket names as supervisor was
\* answered with ValidationError and the row is still there.
C6_Witness ==
    \E p \in Procs :
        /\ Answered(p, "deleteUser")
        /\ req[p].result = "ValidationError: El usuario tiene tickets asociados."
        /\ req[p].userId \in DOMAIN users
        /\ \E t \in Tickets : req[p].userId \in tickets[t].supervisorId

\* C7: refresh with a valid refresh token whose user has been deleted is
\* answered with InvalidTokenError (not UnauthorizedError) and issues no
\* token pair; and the identifier of a deleted user that holds a refresh
\* token never names a row again, so the token can never again yield tokens.
C7_DeletedUserTokenDead ==
    [][/\ \A p \in Procs :
             LET token == req'[p].token
             IN  (Accepted(p, "refresh") /\ Refresh(p, token) /\ token.ok
                    /\ token.userId \notin DOMAIN users)
                    => /\ req'[p].result = "InvalidTokenError"
                       /\ req'[p].pair = {}
                       /\ issued' = issued
       /\ \A u \in issued : u \notin DOMAIN users => u \notin DOMAIN users']_vars

\* C7 witness: a valid refresh token of a deleted user (identifier not 0)
\* was presented and answered with InvalidTokenError.
C7_Witness ==
    \E p \in Procs :
        /\ Answered(p, "refresh")
        /\ req[p].token.ok
        /\ Truthy(req[p].token.userId)
        /\ req[p].token.userId \notin DOMAIN users
        /\ req[p].result = "InvalidTokenError"
        /\ req[p].pair = {}

\* C8: authenticate with a valid login token whose email is the email of an
\* existing user U answers with a token pair carrying U's identifier;
\* refresh with a valid refresh token of an existing user U answers with a
\* pair carrying U's identifier again; and no pair carries an identifier
\* other than the one the presented token resolves to.
C8_TokensCarryTheUser ==
    [][\A p \in Procs :
          LET token == req'[p].token
          IN  /\ (Accepted(p, "authenticate") /\ Authenticate(p, token) /\ token.ok)
                    => \A U \in DOMAIN users :
                          users[U].email \in token.email
                              => req'[p].result = "ok" /\ req'[p].pair = {U}
              /\ (Accepted(p, "refresh") /\ Refresh(p, token) /\ token.ok)
                    => /\ token.userId \in DOMAIN users
                          => req'[p].result = "ok" /\ req'[p].pair = {token.userId}
                       /\ req'[p].pair \subseteq {token.userId}]_vars

\* C9 as stated: getUserById, updateUser and deleteUser answer a request
\* whose target identifier names no row with EntityNotFoundError, whatever
\* the body, and leave the store unchanged.
C9_NotFoundFirst ==
    [][\A p \in Procs :
          LET id == req'[p].userId
          IN  /\ (Accepted(p, "getUserById") /\ GetUserById(p, id) /\ id \notin DOMAIN users)
                    => /\ req'[p].pc = "done" /\ req'[p].result = "EntityNotFoundError"
                       /\ UNCHANGED <<users, nextId, tickets>>
              /\ (Accepted(p, "updateUser") /\ UpdateUser(p, id, req'[p].body)
                    /\ id \notin DOMAIN users)
                    => /\ req'[p].pc = "done" /\ req'[p].result = "EntityNotFoundError"
                       /\ UNCHANGED <<users, nextId, tickets>>
              /\ (Leaves(p, "deleteUser", "validate") /\ id \notin DOMAIN users)
                    => /\ req'[p].pc = "done" /\ req'[p].result = "EntityNotFoundError"
                       /\ UNCHANGED <<users, nextId, tickets>>]_vars

\* C9 amended: a request whose target identifier names no row is answered
\* with EntityNotFoundError by getUserById, by deleteUser, and by updateUser
\* when its body passes the schema; updateUser with a body the schema rejects
\* is answered with ValidationError instead.  The store is unchanged in
\* every case.
C9_NotFoundAfterBodyCheck ==
    [][\A p \in Procs :
          LET id == req'[p].userId
          IN  /\ (Accepted(p, "getUserById") /\ GetUserById(p, id) /\ id \notin DOMAIN users)
                    => /\ req'[p].pc = "done" /\ req'[p].result = "EntityNotFoundError"
                       /\ UNCHANGED <<users, nextId, tickets>>
              /\ (Accepted(p, "updateUser") /\ UpdateUser(p, id, req'[p].body)
                    /\ id \notin DOMAIN users)
                    => /\ req'[p].pc = "done"
                       /\ req'[p].result = IF req'[p].body.valid THEN "EntityNotFoundError"
                                                                 ELSE "ValidationError"
                       /\ UNCHANGED <<users, nextId, tickets>>
              /\ (Leaves(p, "deleteUser", "validate") /\ id \notin DOMAIN users)
                    => /\ req'[p].pc = "done" /\ req'[p].result = "EntityNotFoundError"
                       /\ UNCHANGED <<users, nextId, tickets>>]_vars

\* C9 witness: an updateUser with a well-formed body for an identifier that
\* names no row was answered with EntityNotFoundError.
C9_Witness ==
    \E p \in Procs :
        /\ Answered(p, "updateUser")
        /\ req[p].body.valid
        /\ req[p].userId \notin DOMAIN users
        /\ req[p].result = "EntityNotFoundError"

\* C10: refresh keeps no record of used refresh tokens: once a refresh with
\* token R has succeeded, a later refresh with the same R, still valid and
\* its user still existing, succeeds again; and neither authenticate nor
\* refresh changes the user store.
C10_RefreshReusable ==
    [][\A p \in Procs :
          LET token == req'[p].token
          IN  /\ (Accepted(p, "refresh") /\ Refresh(p, token) /\ token.ok
                    /\ token.userId \in DOMAIN users
                    /\ \E q \in Procs : /\ Answered(q, "refresh")
                                        /\ req[q].token = token
                                        /\ req[q].result = "ok")
                    => req'[p].result = "ok" /\ req'[p].pair = {token.userId}
              /\ (Accepted(p, "refresh") /\ Refresh(p, token))
                    => UNCHANGED <<users, nextId, tickets>>
              /\ (Accepted(p, "authenticate") /\ Authenticate(p, token))
                    => UNCHANGED <<users, nextId, tickets>>]_vars

\* C10 witness: two refresh requests with the same refresh token have both
\* been answered with a token pair.
C10_Witness ==
    \E p, q \in Procs :
        /\ p # q
        /\ Answered(p, "refresh") /\ Answered(q, "refresh")
        /\ req[p].token = req[q].token
        /\ req[p].result = "ok" /\ req[q].result = "ok"

====
